---- MODULE Spec2Model ----
(***************************************************************************)
(* Reservation / guest reconciliation of the hotel PMS integration:        *)
(* the Mews adapter (hotel/pms_systems.py) and the entity reconciler        *)
(* (hotel/utils.py), over a store of Guest and Stay rows.                   *)
(*                                                                         *)
(* Python values: a missing key / None is the string NoneVal; a status     *)
(* value is a tagged record (PyStr, PyTuple, PyNone) because the code       *)
(* stores strings, (value, label) tuples and None in the same field.       *)
(***************************************************************************)
EXTENDS Integers, Sequences, FiniteSets, TLC

VARIABLES guests, stays, phones, newGuests, newStays, last

vars == <<guests, stays, phones, newGuests, newStays, last>>

----------------------------------------------------------------------------
(* Bounds of the model *)

MaxEvents == 2
MaxStays == 2
MaxBatch == 2
MaxNameLen == 4

----------------------------------------------------------------------------
(* Python values *)

NoneVal == "<None>"

Truthy(s) == s # NoneVal /\ s # ""

PyNone == [t |-> "none", v |-> "", l |-> ""]

PyStr(s) == [t |-> "str", v |-> s, l |-> ""]

PyTuple(a, b) == [t |-> "tuple", v |-> a, l |-> b]

----------------------------------------------------------------------------
(* hotel/models.py: the canonical status enumeration and the Language      *)
(* choices.                                                                *)

StatusValues == {"BEFORE", "INSTAY", "AFTER", "CANCEL", "UNKNOWN"}

StatusLabel(v) ==
  CASE v = "BEFORE" -> "Before"
    [] v = "INSTAY" -> "In stay"
    [] v = "AFTER" -> "After"
    [] v = "CANCEL" -> "Cancel"
    [] OTHER -> "Unknown"

StatusDefault == PyStr("UNKNOWN")

\* utils.py STATUS_MAPPINGS: vendor status -> (value, label)
STATUS_MAPPINGS ==
  [s \in {"in_house", "checked_out", "cancelled", "no_show", "not_confirmed", "booked"} |->
     CASE s = "in_house" -> PyTuple("INSTAY", StatusLabel("INSTAY"))
       [] s = "checked_out" -> PyTuple("AFTER", StatusLabel("AFTER"))
       [] s = "cancelled" -> PyTuple("CANCEL", StatusLabel("CANCEL"))
       [] s = "no_show" -> PyTuple("UNKNOWN", StatusLabel("UNKNOWN"))
       [] s = "not_confirmed" -> PyTuple("UNKNOWN", StatusLabel("UNKNOWN"))
       [] OTHER -> PyTuple("BEFORE", StatusLabel("BEFORE"))]

\* STATUS_MAPPINGS.get(status)
StatusGet(status) ==
  IF status \in DOMAIN STATUS_MAPPINGS THEN STATUS_MAPPINGS[status] ELSE PyNone

\* utils.py LANGUAGE_MAPPINGS: country -> Language
LANGUAGE_MAPPINGS ==
  [c \in {"NL", "DE", "GG", "GB", "CA", "BR", "CN", "AU"} |->
     CASE c = "NL" -> "DUTCH"
       [] c = "DE" -> "GERMAN"
       [] c = "BR" -> "PORTUGUESE_PORTUGAL"
       [] OTHER -> "BRITISH_ENGLISH"]

\* mutant: a default language on a miss
LanguageGetDefault(country) ==
  IF country \in DOMAIN LANGUAGE_MAPPINGS THEN LANGUAGE_MAPPINGS[country]
  ELSE "BRITISH_ENGLISH"

\* LANGUAGE_MAPPINGS.get(country)
LanguageGet(country) ==
  IF country \in DOMAIN LANGUAGE_MAPPINGS THEN LANGUAGE_MAPPINGS[country] ELSE NoneVal

----------------------------------------------------------------------------
(* Store rows *)

Stay(hotel, guest, rid, gid, status, checkin, checkout) ==
  [hotel |-> hotel, guest |-> guest, rid |-> rid, gid |-> gid,
   status |-> status, checkin |-> checkin, checkout |-> checkout]

Guest(name, phone, language) ==
  [name |-> name, phone |-> phone, language |-> language]

----------------------------------------------------------------------------
(* Inputs *)

HotelIds == {"H1", "H2"}

RIds == {"R1", "R2"}

NotADict == [kind |-> "other", Name |-> NoneVal, ReservationId |-> NoneVal, Extra |-> NoneVal]

\* an event of the raw payload: Name, Value.ReservationId and a field the
\* adapter does not know
RawEvent(name, rid) ==
  [kind |-> "dict", Name |-> name, ReservationId |-> rid, Extra |-> "x"]

RawEvents ==
  {RawEvent("ReservationUpdated", r) : r \in RIds \cup {NoneVal}}
    \cup {RawEvent(NoneVal, "R1"), NotADict}

SeqsUpTo(S, n) == UNION {[1..k -> S] : k \in 0..n}

RawPayload(h, es) ==
  [kind |-> "dict", HotelId |-> h, IntegrationId |-> "I1", Events |-> es]

\* payloads of up to MaxEvents events; those without a HotelId carry at most one
RawPayloads ==
  {RawPayload("H1", es) : es \in SeqsUpTo(RawEvents, MaxEvents)}
    \cup {RawPayload(NoneVal, es) : es \in SeqsUpTo(RawEvents, 1)}
    \cup {[kind |-> "other", HotelId |-> NoneVal, IntegrationId |-> NoneVal, Events |-> <<>>]}

----------------------------------------------------------------------------
(* PMS_Mews.clean_webhook_payload *)

\* mutant: "or" in place of "and" in the filter
RECURSIVE CleanEventsOr(_)
CleanEventsOr(events) ==
  IF events = <<>> THEN [ok |-> TRUE, out |-> <<>>]
  ELSE LET event == Head(events)
           rest == CleanEventsOr(Tail(events))
       IN IF event.kind # "dict" \/ ~rest.ok THEN [ok |-> FALSE, out |-> <<>>]
          ELSE IF Truthy(event.Name) \/ Truthy(event.ReservationId)
               THEN [ok |-> TRUE,
                     out |-> <<[kind |-> "dict", Name |-> event.Name,
                                ReservationId |-> event.ReservationId]>> \o rest.out]
               ELSE rest

RECURSIVE CleanEvents(_)
CleanEvents(events) ==
  IF events = <<>> THEN [ok |-> TRUE, out |-> <<>>]
  ELSE LET event == Head(events)
           rest == CleanEvents(Tail(events))
       IN IF event.kind # "dict" \/ ~rest.ok THEN [ok |-> FALSE, out |-> <<>>]
          ELSE IF Truthy(event.Name) /\ Truthy(event.ReservationId)
               THEN [ok |-> TRUE,
                     out |-> <<[kind |-> "dict", Name |-> event.Name,
                                ReservationId |-> event.ReservationId]>> \o rest.out]
               ELSE rest

\* mutant: the except branch returns the dict built so far
EmptyDictPartial == [kind |-> "dict", HotelId |-> "", IntegrationId |-> "", Events |-> <<>>]

EmptyDict == [kind |-> "empty", HotelId |-> "", IntegrationId |-> "", Events |-> <<>>]

clean_webhook_payload(payload) ==
  IF payload.kind # "dict" THEN EmptyDict
  ELSE LET evs == CleanEvents(payload.Events)
       IN IF ~evs.ok THEN EmptyDict
          ELSE [kind |-> "dict",
                HotelId |-> IF payload.HotelId = NoneVal THEN "" ELSE payload.HotelId,
                IntegrationId |-> IF payload.IntegrationId = NoneVal THEN "" ELSE payload.IntegrationId,
                Events |-> evs.out]

----------------------------------------------------------------------------
(* PMS_Mews.update_database *)

\* Stay.objects.update_or_create(hotel_id=, pms_reservation_id=, defaults=)
UpdateOrCreate(ss, hotel_id, rid) ==
  LET found == {s \in ss : s.hotel = hotel_id /\ s.rid = rid}
  IN IF Cardinality(found) > 1 THEN [ok |-> FALSE, stays |-> ss]
     ELSE IF found = {}
          THEN [ok |-> TRUE,
                stays |-> ss \cup {Stay(hotel_id, NoneVal, rid, NoneVal,
                                         StatusDefault, NoneVal, NoneVal)}]
          ELSE [ok |-> TRUE, stays |-> ss]

RECURSIVE UpdateEvents(_, _, _, _)
UpdateEvents(ss, hotel_id, events, done) ==
  IF events = <<>> THEN [ok |-> TRUE, stays |-> ss, done |-> done]
  ELSE LET event == Head(events)
       IN IF event.kind # "dict" THEN [ok |-> FALSE, stays |-> ss, done |-> done]
          ELSE LET r == UpdateOrCreate(ss, hotel_id, event.ReservationId)
               IN IF ~r.ok THEN [ok |-> FALSE, stays |-> ss, done |-> done]
                  ELSE UpdateEvents(r.stays, hotel_id, Tail(events), done + 1)

\* payload is what the caller passes: a dict, or (from handle_webhook) a str
update_database(ss, payload) ==
  IF payload.kind # "dict" THEN [ok |-> FALSE, stays |-> ss, done |-> 0]
  ELSE UpdateEvents(ss, payload.HotelId, payload.Events, 0)

PyStrArg(s) == [kind |-> "str", HotelId |-> s, IntegrationId |-> "", Events |-> <<>>]

----------------------------------------------------------------------------
(* PMS_Mews.handle_webhook *)

\* the delivery repeats the one handled just before it
Redelivery(webhook_data) ==
  last.op = "handle_webhook" /\ last.arg = webhook_data

HandleWebhook(webhook_data) ==
  LET cleaned_payload == clean_webhook_payload(webhook_data)
  IN IF cleaned_payload.kind = "dict"
     THEN LET hotel_id == cleaned_payload.HotelId
              r == update_database(stays, PyStrArg(hotel_id))
          IN /\ stays' = r.stays
             /\ last' = [op |-> "handle_webhook", ret |-> TRUE, logged |-> ~r.ok,
                         done |-> r.done, arg |-> webhook_data, cleaned |-> cleaned_payload,
                         again |-> Redelivery(webhook_data)]
     ELSE /\ stays' = stays
          /\ last' = [op |-> "handle_webhook", ret |-> FALSE, logged |-> TRUE,
                      done |-> 0, arg |-> webhook_data, cleaned |-> cleaned_payload,
                      again |-> Redelivery(webhook_data)]

DoHandleWebhook ==
  /\ \E p \in RawPayloads : HandleWebhook(p)
  /\ UNCHANGED <<guests, phones, newGuests, newStays>>

DirectPayloads ==
  {[kind |-> "dict", HotelId |-> h, IntegrationId |-> "I1", Events |-> es] :
      h \in HotelIds,
      es \in SeqsUpTo({[kind |-> "dict", Name |-> "ReservationUpdated", ReservationId |-> r] :
                         r \in RIds} \cup {NotADict}, MaxEvents)}

DoUpdateDatabase ==
  /\ \E p \in DirectPayloads :
       LET r == update_database(stays, p)
       IN /\ Cardinality(r.stays) <= MaxStays
          /\ stays' = r.stays
          /\ last' = [op |-> "update_database", ret |-> TRUE, logged |-> ~r.ok,
                      done |-> r.done, arg |-> p, cleaned |-> p]
  /\ UNCHANGED <<guests, phones, newGuests, newStays>>

----------------------------------------------------------------------------
(* PMS_Mews.update_stay, get_reservations_for_date, update_tomorrows_stays *)

\* a reservation dict; an absent key is NoneVal
Reservation(ReservationId, reservation_id, status, checkin, checkout) ==
  [ReservationId |-> ReservationId, reservation_id |-> reservation_id,
   status |-> status, checkin |-> checkin, checkout |-> checkout]

\* reservation.get(key, default) for the status field
GetStatus(reservation, default) ==
  IF reservation.status = NoneVal THEN default ELSE PyStr(reservation.status)

GetOr(value, default) == IF value = NoneVal THEN default ELSE value

update_stay(ss, reservation) ==
  LET reservation_id == reservation.ReservationId
      found == {s \in ss : s.rid = reservation_id}
  IN IF Cardinality(found) # 1 THEN [ok |-> FALSE, stays |-> ss]
     ELSE LET stay == CHOOSE s \in found : TRUE
              saved == [stay EXCEPT !.status = GetStatus(reservation, stay.status),
                                    !.checkin = GetOr(reservation.checkin, stay.checkin),
                                    !.checkout = GetOr(reservation.checkout, stay.checkout)]
          IN [ok |-> TRUE, stays |-> (ss \ {stay}) \cup {saved}]

RECURSIVE SetToSeq(_)
SetToSeq(S) ==
  IF S = {} THEN <<>>
  ELSE LET x == CHOOSE y \in S : TRUE IN <<x>> \o SetToSeq(S \ {x})

get_reservations_for_date(ss, date) ==
  LET matching == SetToSeq({s \in ss : s.checkin = date})
  IN [i \in 1..Len(matching) |->
        Reservation(NoneVal, matching[i].rid, NoneVal, NoneVal, NoneVal)]

RECURSIVE UpdateStays(_, _, _)
UpdateStays(ss, reservations, errors) ==
  IF reservations = <<>> THEN [stays |-> ss, errors |-> errors]
  ELSE LET r == update_stay(ss, Head(reservations))
       IN UpdateStays(r.stays, Tail(reservations), IF r.ok THEN errors ELSE errors + 1)

Dates == {"2024-03-15", "2024-03-16"}

DoUpdateTomorrowsStays ==
  /\ \E tomorrow \in Dates :
       LET reservations == get_reservations_for_date(stays, tomorrow)
           r == UpdateStays(stays, reservations, 0)
       IN /\ stays' = r.stays
          /\ last' = [op |-> "update_tomorrows_stays", ret |-> TRUE, arg |-> tomorrow,
                      found |-> Len(reservations), errors |-> r.errors]
  /\ UNCHANGED <<guests, phones, newGuests, newStays>>

SyncReservations ==
  {Reservation(r, NoneVal, s, c, NoneVal) :
     r \in RIds, s \in {"in_house", NoneVal}, c \in Dates \cup {NoneVal}}

DoUpdateStay ==
  /\ \E reservation \in SyncReservations :
       LET r == update_stay(stays, reservation)
       IN /\ stays' = r.stays
          /\ last' = [op |-> "update_stay", logged |-> ~r.ok, arg |-> reservation]
  /\ UNCHANGED <<guests, phones, newGuests, newStays>>

(* PMS_Mews.get_reservation_details, stay_has_breakfast *)

\* the dict built from the stored Stay; has_breakfast is a key it never has
ReservationDetailsDict(reservation_id, guest_name, status, checkin, checkout) ==
  [reservation_id |-> reservation_id, guest_name |-> guest_name, status |-> status,
   checkin |-> checkin, checkout |-> checkout, has_breakfast |-> NoneVal]

\* {}: every key absent
EmptyDetails == ReservationDetailsDict(NoneVal, NoneVal, PyNone, NoneVal, NoneVal)

get_reservation_details(ss, reservation_id) ==
  LET found == {s \in ss : s.rid = reservation_id}
  IN IF Cardinality(found) # 1 THEN [logged |-> TRUE, details |-> EmptyDetails]
     ELSE LET stay == CHOOSE s \in found : TRUE
          IN [logged |-> FALSE,
              details |-> ReservationDetailsDict(
                            stay.rid,
                            IF stay.guest = NoneVal THEN "Unknown"
                            ELSE (CHOOSE g \in guests : g.phone = stay.guest).name,
                            stay.status, stay.checkin, stay.checkout)]

\* reservation_details.get('has_breakfast', None)
stay_has_breakfast(ss, stay) ==
  get_reservation_details(ss, stay.rid).details.has_breakfast

DoStayHasBreakfast ==
  /\ \E stay \in stays :
       last' = [op |-> "stay_has_breakfast", arg |-> stay,
                ret |-> stay_has_breakfast(stays, stay),
                logged |-> get_reservation_details(stays, stay.rid).logged]
  /\ UNCHANGED <<guests, stays, phones, newGuests, newStays>>

----------------------------------------------------------------------------
(* hotel/utils.py: validation utilities *)

ValidPhones == {"+31612345678", "+4915112345678"}

\* phonenumbers.parse / phonenumbers.is_valid_number on the inputs of the model
PhoneClass(p) ==
  CASE p \in ValidPhones -> "valid"
    [] p = "+1234" -> "invalid"
    [] OTHER -> "unparseable"

\* True / False, or "raise" (the NumberParseException is re-raised as Exception)
is_valid_phone_number(phone_number) ==
  CASE PhoneClass(phone_number) = "unparseable" -> "raise"
    [] PhoneClass(phone_number) = "valid" -> "True"
    [] OTHER -> "False"

is_unique_phone_number(gs, phone_number) ==
  ~(\E g \in gs : g.phone = phone_number)

\* mutant: "or" in place of "and"
validate_phone_number_or(gs, phone_number) ==
  LET v == is_valid_phone_number(phone_number)
  IN IF v = "raise" THEN "raise"
     ELSE IF v = "True" \/ is_unique_phone_number(gs, phone_number) THEN "True"
     ELSE "False"

validate_phone_number(gs, phone_number) ==
  LET v == is_valid_phone_number(phone_number)
  IN IF v = "raise" THEN "raise"
     ELSE IF v = "True" /\ is_unique_phone_number(gs, phone_number) THEN "True"
     ELSE "False"

DoValidatePhoneNumber ==
  /\ \E phone_number \in ValidPhones \cup {"+1234", "not-a-number"} :
       last' = [op |-> "validate_phone_number", arg |-> phone_number,
                ret |-> validate_phone_number(guests, phone_number)]
  /\ UNCHANGED <<guests, stays, phones, newGuests, newStays>>

----------------------------------------------------------------------------
(* hotel/utils.py: fetch_or_create_guest *)

\* mutant: the membership test is skipped
InSeqSkipped(x, s) == FALSE

\* phone_number in phones
InSeq(x, s) == \E i \in 1..Len(s) : s[i] = x

NoGuest == Guest(NoneVal, NoneVal, NoneVal)

GuestResult(kind, err, guest, ph, created) ==
  [kind |-> kind, err |-> err, guest |-> guest, phones |-> ph, created |-> created]

\* mutant: the Guest found is refreshed from the incoming details
fetch_or_create_guest_refresh(gs, guest_details, ph) ==
  LET phone_number == guest_details.Phone
      country == guest_details.Country
      found == {g \in gs : g.phone = phone_number}
  IN IF Cardinality(found) > 1
       THEN GuestResult("raise", "MultipleObjectsReturned", NoGuest, ph, FALSE)
     ELSE IF found # {}
       THEN GuestResult("guest", "",
                        Guest(guest_details.Name, phone_number, LanguageGet(country)),
                        ph, FALSE)
     ELSE IF ~Truthy(guest_details.Name)
       THEN GuestResult("raise", "Please enter a valid name!", NoGuest, ph, FALSE)
     ELSE IF validate_phone_number(gs, phone_number) = "raise"
       THEN GuestResult("raise", "Invalid phone number", NoGuest, ph, FALSE)
     ELSE IF validate_phone_number(gs, phone_number) # "True"
       THEN GuestResult("raise", "Please enter a valid phone number!", NoGuest, ph, FALSE)
     ELSE IF ~Truthy(country)
       THEN GuestResult("raise", "Please enter a valid country!", NoGuest, ph, FALSE)
     ELSE IF InSeq(phone_number, ph)
       THEN GuestResult("raise", "Same phone number used for multiple guests!", NoGuest, ph, FALSE)
     ELSE GuestResult("guest", "",
                      Guest(guest_details.Name, phone_number, LanguageGet(country)),
                      Append(ph, phone_number), TRUE)

\* mutant: the phone is appended before the check against the list
fetch_or_create_guest_early_append(gs, guest_details, ph) ==
  LET phone_number == guest_details.Phone
      country == guest_details.Country
      found == {g \in gs : g.phone = phone_number}
  IN IF Cardinality(found) > 1
       THEN GuestResult("raise", "MultipleObjectsReturned", NoGuest, ph, FALSE)
     ELSE IF found # {}
       THEN GuestResult("guest", "", CHOOSE g \in found : TRUE, ph, FALSE)
     ELSE IF ~Truthy(guest_details.Name)
       THEN GuestResult("raise", "Please enter a valid name!", NoGuest, ph, FALSE)
     ELSE IF validate_phone_number(gs, phone_number) = "raise"
       THEN GuestResult("raise", "Invalid phone number", NoGuest, ph, FALSE)
     ELSE IF validate_phone_number(gs, phone_number) # "True"
       THEN GuestResult("raise", "Please enter a valid phone number!", NoGuest, ph, FALSE)
     ELSE IF ~Truthy(country)
       THEN GuestResult("raise", "Please enter a valid country!", NoGuest, ph, FALSE)
     ELSE IF InSeq(phone_number, ph)
       THEN GuestResult("raise", "Same phone number used for multiple guests!", NoGuest,
                        Append(ph, phone_number), FALSE)
     ELSE GuestResult("guest", "",
                      Guest(guest_details.Name, phone_number, LanguageGet(country)),
                      Append(ph, phone_number), TRUE)

fetch_or_create_guest(gs, guest_details, ph) ==
  LET phone_number == guest_details.Phone
      country == guest_details.Country
      found == {g \in gs : g.phone = phone_number}
  IN IF Cardinality(found) > 1
       THEN GuestResult("raise", "MultipleObjectsReturned", NoGuest, ph, FALSE)
     ELSE IF found # {}
       THEN GuestResult("guest", "", CHOOSE g \in found : TRUE, ph, FALSE)
     ELSE IF ~Truthy(guest_details.Name)
       THEN GuestResult("raise", "Please enter a valid name!", NoGuest, ph, FALSE)
     ELSE IF validate_phone_number(gs, phone_number) = "raise"
       THEN GuestResult("raise", "Invalid phone number", NoGuest, ph, FALSE)
     ELSE IF validate_phone_number(gs, phone_number) # "True"
       THEN GuestResult("raise", "Please enter a valid phone number!", NoGuest, ph, FALSE)
     ELSE IF ~Truthy(country)
       THEN GuestResult("raise", "Please enter a valid country!", NoGuest, ph, FALSE)
     ELSE IF InSeq(phone_number, ph)
       THEN GuestResult("raise", "Same phone number used for multiple guests!", NoGuest, ph, FALSE)
     ELSE GuestResult("guest", "",
                      Guest(guest_details.Name, phone_number, LanguageGet(country)),
                      Append(ph, phone_number), TRUE)

GuestNames == {"A. Jansen", "B. Smit", NoneVal}

GuestPhones == ValidPhones \cup {"+1234", "not-a-number"}

GuestCountries == {"NL", "XX", NoneVal}

GuestDetail(name, phone, country) ==
  [Name |-> name, Phone |-> phone, Country |-> country]

GuestDetails ==
  {GuestDetail(n, p, "NL") : n \in GuestNames, p \in GuestPhones}
    \cup {GuestDetail("A. Jansen", p, c) : p \in GuestPhones, c \in GuestCountries}

FetchOrCreateGuestOver(details) ==
  /\ \E d \in details :
       LET r == fetch_or_create_guest(guests, d, phones)
       IN /\ Len(r.phones) <= MaxBatch
          /\ phones' = r.phones
          /\ newGuests' = IF r.created THEN Append(newGuests, r.guest) ELSE newGuests
          /\ last' = [op |-> "fetch_or_create_guest", arg |-> d, kind |-> r.kind,
                      err |-> r.err, guest |-> r.guest, created |-> r.created,
                      seen |-> \E i \in 1..Len(phones) : phones[i] = d.Phone,
                      first |-> {newGuests[i] : i \in {j \in 1..Len(newGuests) :
                                                          newGuests[j].phone = d.Phone}},
                      stored |-> ~is_unique_phone_number(guests, d.Phone)]
  /\ UNCHANGED <<guests, stays, newStays>>

DoFetchOrCreateGuest == FetchOrCreateGuestOver(GuestDetails)

\* the one guest of the batches that exercise the Stay upsert
DoFetchOrCreateJansen ==
  FetchOrCreateGuestOver({GuestDetail("A. Jansen", "+31612345678", "NL")})

----------------------------------------------------------------------------
(* hotel/utils.py: update_or_create_stay *)

\* Hotel rows of the store, by pms_hotel_id
ProvisionedHotels == HotelIds

\* Hotel.objects.filter(pms_hotel_id=...).first()
HotelFirst(pms_hotel_id) ==
  IF pms_hotel_id \in ProvisionedHotels THEN pms_hotel_id ELSE NoneVal

NoStay == Stay(NoneVal, NoneVal, NoneVal, NoneVal, PyNone, NoneVal, NoneVal)

StayResult(kind, err, stay) == [kind |-> kind, err |-> err, stay |-> stay]

update_or_create_stay(ss, reservation_details, guest) ==
  LET status == reservation_details.Status
      reservation_id == reservation_details.ReservationId
      guest_id == reservation_details.GuestId
      found == {s \in ss : s.rid = reservation_id}
  IN IF Cardinality(found) > 1
       THEN StayResult("raise", "MultipleObjectsReturned", NoStay)
     ELSE IF found # {}
       \* stay.guest and stay.status are assigned on the fetched object, then
       \* datetime.strptime is looked up on the datetime module and raises
       THEN StayResult("raise", "AttributeError",
                       [(CHOOSE s \in found : TRUE) EXCEPT
                          !.guest = guest.phone, !.status = StatusGet(status)])
     ELSE StayResult("stay", "",
                     Stay(HotelFirst(reservation_details.HotelId), guest.phone,
                          reservation_id, guest_id, StatusGet(status),
                          reservation_details.CheckInDate,
                          reservation_details.CheckOutDate))

VendorStatuses ==
  {"in_house", "checked_out", "cancelled", "no_show", "not_confirmed", "booked"}

ReservationDetail(rid, hotel, status) ==
  [ReservationId |-> rid, GuestId |-> "G1", HotelId |-> hotel, Status |-> status,
   CheckInDate |-> "2024-03-15", CheckOutDate |-> "2024-03-17"]

ReservationDetails ==
  {ReservationDetail(r, h, "in_house") : r \in RIds, h \in HotelIds \cup {"H9"}}
    \cup {ReservationDetail("R1", "H1", s) : s \in VendorStatuses \cup {"pending", NoneVal}}

SeqToSet(s) == {s[i] : i \in 1..Len(s)}

UpdateOrCreateStayOver(details) ==
  /\ \E d \in details, g \in guests \cup SeqToSet(newGuests) :
       LET r == update_or_create_stay(stays, d, g)
       IN /\ r.kind = "stay" => Len(newStays) < MaxBatch
          /\ newStays' = IF r.kind = "stay" THEN Append(newStays, r.stay) ELSE newStays
          /\ last' = [op |-> "update_or_create_stay", arg |-> d, guest |-> g,
                      kind |-> r.kind, err |-> r.err, stay |-> r.stay]
  /\ UNCHANGED <<guests, stays, phones, newGuests>>

DoUpdateOrCreateStay == UpdateOrCreateStayOver(ReservationDetails)

\* CheckInDate / CheckOutDate strings as the vendor may send them
DateStrings == {"2024-03-15", "2024-03-17", "2024-12-01", "15/03/2024", "2024-02-30"}

DateDetails ==
  {[ReservationDetail("R1", "H1", "in_house") EXCEPT !.CheckInDate = c, !.CheckOutDate = o] :
     c \in DateStrings, o \in DateStrings}

\* the Stay upsert over reservations whose dates vary
DoUpdateOrCreateStayDates == UpdateOrCreateStayOver(DateDetails)

----------------------------------------------------------------------------
(* The store's create with uniqueness enforcement (Guest by phone, Stay by   *)
(* hotel and reservation ID), applied by the caller to the objects the       *)
(* reconciler constructed during the batch; the next batch starts with a     *)
(* fresh phones list.                                                        *)

RECURSIVE SaveGuests(_, _)
SaveGuests(gs, new) ==
  IF new = <<>> THEN gs
  ELSE SaveGuests(IF \E g \in gs : g.phone = Head(new).phone THEN gs
                  ELSE gs \cup {Head(new)}, Tail(new))

RECURSIVE SaveStays(_, _)
SaveStays(ss, new) ==
  IF new = <<>> THEN ss
  ELSE SaveStays(IF \E s \in ss : s.hotel = Head(new).hotel /\ s.rid = Head(new).rid
                 THEN ss ELSE ss \cup {Head(new)}, Tail(new))

EndBatch ==
  /\ phones # <<>> \/ newStays # <<>>
  /\ Cardinality(SaveStays(stays, newStays)) <= MaxStays
  /\ guests' = SaveGuests(guests, newGuests)
  /\ stays' = SaveStays(stays, newStays)
  /\ phones' = <<>>
  /\ newGuests' = <<>>
  /\ newStays' = <<>>
  /\ last' = [op |-> "end_batch"]

----------------------------------------------------------------------------
(* get_pms: a vendor name is a sequence of characters *)

Lower(c) ==
  CASE c = "M" -> "m" [] c = "E" -> "e" [] c = "W" -> "w" [] c = "S" -> "s" [] OTHER -> c

Upper(c) ==
  CASE c = "m" -> "M" [] c = "e" -> "E" [] c = "w" -> "W" [] c = "s" -> "S" [] OTHER -> c

\* mutant: only the first character is touched
CapitalizeFirstOnly(name) ==
  [i \in 1..Len(name) |-> IF i = 1 THEN Upper(name[i]) ELSE name[i]]

\* str.capitalize()
Capitalize(name) ==
  [i \in 1..Len(name) |-> IF i = 1 THEN Upper(name[i]) ELSE Lower(name[i])]

\* the names of the classes the module holds
clsnames ==
  {<<"A", "B", "C">>, <<"A", "P", "I", "E", "r", "r", "o", "r">>,
   <<"G", "u", "e", "s", "t">>, <<"H", "o", "t", "e", "l">>, <<"S", "t", "a", "y">>,
   <<"d", "a", "t", "e", "t", "i", "m", "e">>, <<"t", "i", "m", "e", "d", "e", "l", "t", "a">>,
   <<"P", "M", "S">>, <<"P", "M", "S", "_", "M", "e", "w", "s">>}

NotFound == [kind |-> "False", cls |-> <<>>]

get_pms(name) ==
  LET fullname == <<"P", "M", "S", "_">> \o Capitalize(name)
  IN IF fullname \in clsnames THEN [kind |-> "instance", cls |-> fullname]
     ELSE NotFound

VendorNames == SeqsUpTo({"m", "e", "w", "s", "M", "E", "W", "S"}, MaxNameLen)

DoGetPms ==
  /\ last.op = "call get_pms"
  /\ last' = [op |-> "get_pms", arg |-> last.name, ret |-> get_pms(last.name)]
  /\ UNCHANGED <<guests, stays, phones, newGuests, newStays>>

----------------------------------------------------------------------------

Idle == [op |-> "none"]

Init ==
  /\ guests = {}
  /\ stays = {}
  /\ phones = <<>>
  /\ newGuests = <<>>
  /\ newStays = <<>>
  /\ last = Idle

Next ==
  \/ DoHandleWebhook
  \/ DoUpdateDatabase
  \/ DoUpdateTomorrowsStays
  \/ DoUpdateStay
  \/ DoFetchOrCreateGuest
  \/ DoUpdateOrCreateStay
  \/ EndBatch
  \/ DoGetPms
  \/ DoStayHasBreakfast
  \/ DoUpdateOrCreateStayDates
  \/ DoValidatePhoneNumber

Spec == Init /\ [][Next]_vars

\* the adapter registry called with one vendor name
InitRegistry ==
  /\ guests = {} /\ stays = {} /\ phones = <<>>
  /\ newGuests = <<>> /\ newStays = <<>>
  /\ \E name \in VendorNames : last = [op |-> "call get_pms", name |-> name]

SpecRegistry == InitRegistry /\ [][DoGetPms]_vars

\* webhook deliveries
NextWebhook ==
  \/ DoHandleWebhook
  \/ DoUpdateDatabase

SpecWebhook == Init /\ [][NextWebhook]_vars

\* the daily sync over the stays the adapter created
NextSync ==
  \/ DoUpdateDatabase
  \/ DoUpdateTomorrowsStays
  \/ DoUpdateStay

SpecSync == Init /\ [][NextSync]_vars

\* the breakfast query against a store filled by webhooks and stay updates
NextBreakfast ==
  \/ DoUpdateDatabase
  \/ DoUpdateStay
  \/ DoStayHasBreakfast

SpecBreakfast == Init /\ [][NextBreakfast]_vars

\* batches of guest upserts
NextGuests ==
  \/ DoFetchOrCreateGuest
  \/ EndBatch

SpecGuests == Init /\ [][NextGuests]_vars

\* phone validation against a store filled by batches of guest upserts
NextPhones ==
  \/ DoFetchOrCreateGuest
  \/ EndBatch
  \/ DoValidatePhoneNumber

SpecPhones == Init /\ [][NextPhones]_vars

\* batches of stay upserts for one guest
NextStays ==
  \/ DoFetchOrCreateJansen
  \/ DoUpdateOrCreateStay
  \/ EndBatch

SpecStays == Init /\ [][NextStays]_vars

\* batches of Stay upserts whose dates vary
NextDates ==
  \/ DoFetchOrCreateJansen
  \/ DoUpdateOrCreateStayDates
  \/ EndBatch

SpecDates == Init /\ [][NextDates]_vars

----------------------------------------------------------------------------
(* The PMS Gateway's answer for a reservation: the phone of its guest *)

GatewayGuestPhone(rid) == IF rid = "R1" THEN "+31612345678" ELSE "+4915112345678"

\* the events of a raw payload that carry a name and a reservation ID
ValidEvent(e) == e.kind = "dict" /\ Truthy(e.Name) /\ Truthy(e.ReservationId)

AllDicts(p) == p.kind = "dict" /\ \A i \in 1..Len(p.Events) : p.Events[i].kind = "dict"

StaysOf(rid) == {s \in stays : s.rid = rid}

----------------------------------------------------------------------------
(* C1: idempotence of webhook handling. After the same valid webhook event  *)
(* has been handled twice in a row, the store holds exactly one Stay for    *)
(* its reservation and exactly one Guest for its guest's phone number.      *)
C1_IdempotentWebhook ==
  (last.op = "handle_webhook" /\ last.again /\ AllDicts(last.arg)) =>
    \A i \in 1..Len(last.arg.Events) :
      ValidEvent(last.arg.Events[i]) =>
        /\ Cardinality(StaysOf(last.arg.Events[i].ReservationId)) = 1
        /\ Cardinality({g \in guests :
              g.phone = GatewayGuestPhone(last.arg.Events[i].ReservationId)}) = 1

(* C2: one Stay per (hotel, reservation ID). No two Stays of the store     *)
(* share hotel and reservation ID, and the Stay upsert for a reservation   *)
(* of one hotel works on a Stay of that hotel: it creates one, or updates  *)
(* the one it found, never the Stay another hotel has under the same ID.   *)
C2_OneStayPerHotelAndReservation ==
  /\ \A s1, s2 \in stays : (s1.hotel = s2.hotel /\ s1.rid = s2.rid) => s1 = s2
  /\ last.op = "update_or_create_stay" =>
        /\ last.stay.hotel = HotelFirst(last.arg.HotelId)
        /\ last.stay.rid = last.arg.ReservationId

(* C3: partial-batch processing. When handle_webhook has handled a batch,   *)
(* every event of it that is itself valid has its Stay in the store,        *)
(* whatever happened to the other events of the batch.                      *)
C3_ValidEventsProcessed ==
  (last.op = "handle_webhook" /\ AllDicts(last.arg)) =>
    \A i \in 1..Len(last.arg.Events) :
      ValidEvent(last.arg.Events[i]) =>
        StaysOf(last.arg.Events[i].ReservationId) # {}

(* C4: handle_webhook returns true if and only if every event of the batch  *)
(* was processed without error.                                             *)
C4_TrueIffAllProcessed ==
  last.op = "handle_webhook" =>
    (last.ret <=> (last.cleaned.kind = "dict"
                     /\ last.done = Len(last.cleaned.Events)))

(* C5: per-event atomicity. Every Stay of the store references a Guest of   *)
(* the store: no Stay is stored without its guest.                          *)
C5_NoStayWithoutGuest ==
  \A s \in stays : \E g \in guests : g.phone = s.guest

(* C6: every Guest of the store has a non-empty name and a phone number    *)
(* that passed format validation, and no two Guests of the store share a   *)
(* phone number.                                                           *)
C6_GuestsValidated ==
  /\ \A g \in guests : Truthy(g.name) /\ PhoneClass(g.phone) = "valid"
  /\ \A g1, g2 \in guests : g1.phone = g2.phone => g1 = g2

\* two Guests have been persisted
C6_Witness == Cardinality(guests) = 2 /\ last.op = "end_batch"

\* the Guest an earlier event of the batch created for the phone
FirstGuest(phone) == {newGuests[i] : i \in {j \in 1..Len(newGuests) : newGuests[j].phone = phone}}

NewValidGuest ==
  /\ last.op = "fetch_or_create_guest"
  /\ Truthy(last.arg.Name)
  /\ PhoneClass(last.arg.Phone) = "valid"
  /\ ~last.seen /\ ~last.stored

(* C10 as claimed: language fallback. A new valid guest whose country is   *)
(* unmapped or missing is created with an unset language.                  *)
C10_Original ==
  (NewValidGuest /\ last.arg.Country \notin DOMAIN LANGUAGE_MAPPINGS) =>
    last.kind = "guest" /\ last.created /\ last.guest.language = NoneVal

(* C10 as amended: a new valid guest whose country is given but unmapped   *)
(* is created with an unset language; one whose country is missing is      *)
(* rejected with the country validation error and no Guest is created.     *)
C10_LanguageFallback ==
  NewValidGuest =>
    /\ (Truthy(last.arg.Country) /\ last.arg.Country \notin DOMAIN LANGUAGE_MAPPINGS) =>
         /\ last.kind = "guest" /\ last.created
         /\ last.guest = Guest(last.arg.Name, last.arg.Phone, NoneVal)
         /\ newGuests # <<>> /\ newGuests[Len(newGuests)] = last.guest
    /\ ~Truthy(last.arg.Country) =>
         /\ last.kind = "raise" /\ ~last.created
         /\ last.err = "Please enter a valid country!"
         /\ FirstGuest(last.arg.Phone) = {}

\* a guest of an unmapped country was created with no language
C10_Witness ==
  /\ NewValidGuest /\ last.arg.Country = "XX"
  /\ last.created /\ last.guest.language = NoneVal

\* the canonical status the documented table gives a vendor status
CanonicalOf(status) ==
  CASE status = "in_house" -> "INSTAY"
    [] status = "checked_out" -> "AFTER"
    [] status = "cancelled" -> "CANCEL"
    [] status = "booked" -> "BEFORE"
    [] OTHER -> "UNKNOWN"

(* C8: the status of every Stay of the store is one of the five canonical  *)
(* values BEFORE, INSTAY, AFTER, CANCEL, UNKNOWN.                           *)
C8_StatusCanonical ==
  \A s \in stays : s.status.t = "str" /\ s.status.v \in StatusValues

(* C9: status mapping totality. The status the Stay upsert gives a Stay is  *)
(* the canonical status of the documented table for the vendor status of   *)
(* the reservation, and UNKNOWN for a vendor status outside the table or   *)
(* missing.                                                                *)
C9_StatusMappingTotal ==
  last.op = "update_or_create_stay" =>
    last.stay.status.v = CanonicalOf(last.arg.Status)

(* C11: when the webhook body is structurally unparseable (not an object,  *)
(* or an event of it is not an object), handle_webhook reports failure and *)
(* the Guests and Stays of the store are as they were before the delivery. *)
C11_UnparseableBodyFails ==
  [][(last'.op = "handle_webhook" /\ ~AllDicts(last'.arg)) =>
       (last'.ret = FALSE /\ guests' = guests /\ stays' = stays)]_vars

\* an unparseable delivery was refused while the store held a Stay
C11_Witness ==
  /\ last.op = "handle_webhook" /\ ~AllDicts(last.arg)
  /\ last.ret = FALSE /\ stays # {}

\* an event reduced to its name and reservation ID
Reduced(e) == [kind |-> "dict", Name |-> e.Name, ReservationId |-> e.ReservationId]

\* the events with a name and a reservation ID, in their order, reduced
KeptEvents(events) ==
  LET kept == SelectSeq(events, ValidEvent)
  IN [i \in 1..Len(kept) |-> Reduced(kept[i])]

LowerName(name) == [i \in 1..Len(name) |-> Lower(name[i])]

(* C13: adapter registry. get_pms returns an instance of the Mews adapter  *)
(* for every vendor name that is "mews" in any mix of upper and lower      *)
(* case, and the not-found sentinel, without raising, for every other name. *)
C13_RegistryResolves ==
  last.op = "get_pms" =>
    IF LowerName(last.arg) = <<"m", "e", "w", "s">>
    THEN last.ret = [kind |-> "instance", cls |-> <<"P", "M", "S", "_", "M", "e", "w", "s">>]
    ELSE last.ret = NotFound

\* "MEWS" resolved to the Mews adapter
C13_Witness ==
  /\ last.op = "get_pms" /\ last.arg = <<"M", "E", "W", "S">>
  /\ last.ret.kind = "instance"

\* what the PMS Gateway answers about breakfast for a reservation ID:
\* "True"/"False" when the vendor exposes it, NoneVal (unknown) when not
GatewayBreakfast(rid) == IF rid = "R1" THEN "True" ELSE NoneVal

\* C14: stay_has_breakfast returns what the PMS Gateway answers for the Stay's
\* reservation ID (true/false when exposed, unknown otherwise), independent of
\* the local store.
C14_BreakfastFromGateway ==
  last.op = "stay_has_breakfast" => last.ret = GatewayBreakfast(last.arg.rid)

\* the reservations the PMS Gateway reports with check-in on a date
GatewayReservations(date) ==
  IF date = "2024-03-15"
  THEN {[rid |-> "R1", status |-> "in_house", checkout |-> "2024-03-17"]}
  ELSE {}

\* C15: after update_tomorrows_stays, every reservation the PMS Gateway reports
\* with check-in tomorrow has a Stay in the store with the reservation's mapped
\* status and its check-in and check-out dates.
C15_TomorrowReconciled ==
  last.op = "update_tomorrows_stays" =>
    \A r \in GatewayReservations(last.arg) :
      \E s \in stays : /\ s.rid = r.rid
                       /\ s.status.t = "str"
                       /\ s.status.v = CanonicalOf(r.status)
                       /\ s.checkin = last.arg
                       /\ s.checkout = r.checkout

\* C16: when a Guest with the given phone is already in the store, the guest
\* upsert returns that stored Guest, raises nothing and creates nothing,
\* whatever name and country the incoming details carry; the store's guests
\* are as before.
C16_StoredGuestReturnedUnchanged ==
  [][(last'.op = "fetch_or_create_guest" /\ last'.stored) =>
       /\ last'.kind = "guest"
       /\ last'.err = ""
       /\ ~last'.created
       /\ last'.guest \in guests
       /\ last'.guest.phone = last'.arg.Phone
       /\ guests' = guests
       /\ newGuests' = newGuests]_vars

C16_Witness ==
  /\ last.op = "fetch_or_create_guest"
  /\ last.stored
  /\ last.kind = "guest"
  /\ last.arg.Name = NoneVal
  /\ last.guest.name # NoneVal

NoDup(s) == \A i, j \in 1..Len(s) : s[i] = s[j] => i = j

\* C20: the seen-phones list of the batch is extended only by a guest upsert
\* that creates a Guest, and then by that guest's phone at its end; an upsert
\* that raises or returns a stored Guest leaves it as it was; the list never
\* holds a phone twice.
C20_PhonesExtendedOnCreateOnly ==
  [][(last'.op = "fetch_or_create_guest") =>
       /\ IF last'.created
          THEN /\ last'.kind = "guest"
               /\ phones' = Append(phones, last'.guest.phone)
               /\ last'.guest.phone = last'.arg.Phone
          ELSE phones' = phones
       /\ (last'.kind = "raise" \/ last'.stored) => ~last'.created
       /\ NoDup(phones')]_vars

C20_Witness ==
  /\ last.op = "fetch_or_create_guest"
  /\ last.created
  /\ Len(phones) = 2
  /\ phones[2] = last.arg.Phone
  /\ phones[1] # phones[2]

\* a date value
Date(y, m, d) == [y |-> y, m |-> m, d |-> d]

NoDate == Date(0, 0, 0)

\* parsing of a "%Y-%m-%d" string to a date value, NoDate when it does not parse
ParseDate(s) ==
  CASE s = "2024-03-15" -> Date(2024, 3, 15)
    [] s = "2024-03-17" -> Date(2024, 3, 17)
    [] s = "2024-12-01" -> Date(2024, 12, 1)
    [] OTHER -> NoDate

Pad2(n) == IF n < 10 THEN "0" \o ToString(n) ELSE ToString(n)

\* formatting of a date value as "%Y-%m-%d"
FormatDate(date) == ToString(date.y) \o "-" \o Pad2(date.m) \o "-" \o Pad2(date.d)

WellFormed(s) == ParseDate(s) # NoDate

\* C17: date round trip. For well-formed YYYY-MM-DD check-in and check-out
\* strings the Stay upsert, creating or updating, returns a Stay whose check-in
\* and check-out are dates that format back to the input strings; with a
\* string that does not parse the upsert fails.
C17_DateRoundTrip ==
  last.op = "update_or_create_stay" =>
    IF WellFormed(last.arg.CheckInDate) /\ WellFormed(last.arg.CheckOutDate)
    THEN /\ last.kind = "stay"
         /\ FormatDate(ParseDate(last.stay.checkin)) = last.arg.CheckInDate
         /\ FormatDate(ParseDate(last.stay.checkout)) = last.arg.CheckOutDate
    ELSE last.kind = "raise"

\* C18: last write wins. A Stay upsert for a reservation the store already
\* holds succeeds, and the Stay it hands back for saving is the stored one,
\* same hotel and reservation ID, now with the guest, the mapped status and
\* the dates of this (the later-processed) event.
C18_LastWriteWins ==
  (last.op = "update_or_create_stay" /\ StaysOf(last.arg.ReservationId) # {}) =>
    /\ last.kind = "stay"
    /\ \E s \in StaysOf(last.arg.ReservationId) :
         /\ last.stay.hotel = s.hotel
         /\ last.stay.rid = s.rid
    /\ last.stay.guest = last.guest.phone
    /\ last.stay.status.v = CanonicalOf(last.arg.Status)
    /\ last.stay.checkin = last.arg.CheckInDate
    /\ last.stay.checkout = last.arg.CheckOutDate

\* C19: validate_phone_number reports its outcome as a value: True exactly
\* when the phone is a valid number and no Guest of the store has it, False in
\* every other case, unparseable input included.
C19_ValidateReturnsBool ==
  last.op = "validate_phone_number" =>
    /\ last.ret \in {"True", "False"}
    /\ last.ret = "True" <=>
         (PhoneClass(last.arg) = "valid" /\ ~(\E g \in guests : g.phone = last.arg))

====
